---- MODULE Spec2Model ----
(***************************************************************************)
(* Model of the ESLint rule lib/rules/prefer-paragraph.js: the rule object *)
(* returned by create(context), its two entry points JSXElement and        *)
(* JSXFragment, and the functions they call (traverseNode, checkNode,      *)
(* isInlineOrText, the suggestion's fix).                                  *)
(*                                                                         *)
(* A document is a JSX tree of nested records that keep the ESTree field   *)
(* names.  A node's identity is its path from the root: a sequence of      *)
(* steps <<field, index>> (index 0 for a field that is not an array).      *)
(* Strings the code looks into (tag names, text values) are sequences of   *)
(* one-character strings.                                                  *)
(***************************************************************************)
EXTENDS Integers, Sequences, FiniteSets

VARIABLES
    doc,            \* the JSX tree of the file being linted (its topmost JSX node)
    services,       \* context.parserServices
    invoked,        \* entry points the host has invoked in this pass (paths)
    reportedNodes,  \* the WeakSet reportedNodes (paths)
    reports,        \* the context.report calls made so far, in order
    checked         \* the nodes checkNode has been called on in this pass (paths)

vars == <<doc, services, invoked, reportedNodes, reports, checked>>

(***************************************************************************)
(* Bounds of the documents that are enumerated.                            *)
(***************************************************************************)
MaxDepth == 3
MaxChildren == 2

Null == [type |-> "Null"]

\* What node.parent is for the topmost node.
None == <<<<"none", 0>>>>

(***************************************************************************)
(* Strings.                                                                *)
(***************************************************************************)
Whitespace == {" ", "\t", "\n"}

RECURSIVE trimStart(_)
trimStart(s) ==
    IF s # <<>> /\ Head(s) \in Whitespace THEN trimStart(Tail(s)) ELSE s

RECURSIVE trimEnd(_)
trimEnd(s) ==
    IF s # <<>> /\ s[Len(s)] \in Whitespace
    THEN trimEnd(SubSeq(s, 1, Len(s) - 1))
    ELSE s

trim(s) == trimEnd(trimStart(s))

LowerCase == <<"a", "b", "c", "d", "e", "f", "g", "h", "i", "j", "k", "l", "m",
               "n", "o", "p", "q", "r", "s", "t", "u", "v", "w", "x", "y", "z">>
UpperCase == <<"A", "B", "C", "D", "E", "F", "G", "H", "I", "J", "K", "L", "M",
               "N", "O", "P", "Q", "R", "S", "T", "U", "V", "W", "X", "Y", "Z">>

toUpperCase(c) ==
    IF \E i \in 1..Len(LowerCase) : LowerCase[i] = c
    THEN UpperCase[CHOOSE i \in 1..Len(LowerCase) : LowerCase[i] = c]
    ELSE c

(***************************************************************************)
(* The lookup tables of create().                                          *)
(***************************************************************************)
INLINE_ELEMENTS == {
    <<"a">>, <<"a", "b", "b", "r">>, <<"b">>, <<"b", "d", "i">>, <<"b", "d", "o">>,
    <<"b", "r">>, <<"c", "i", "t", "e">>, <<"c", "o", "d", "e">>,
    <<"d", "a", "t", "a">>, <<"d", "f", "n">>, <<"e", "m">>, <<"i">>,
    <<"k", "b", "d">>, <<"m", "a", "r", "k">>, <<"q">>, <<"r", "p">>, <<"r", "t">>,
    <<"r", "u", "b", "y">>, <<"s">>, <<"s", "a", "m", "p">>,
    <<"s", "m", "a", "l", "l">>, <<"s", "p", "a", "n">>,
    <<"s", "t", "r", "o", "n", "g">>, <<"s", "u", "b">>, <<"s", "u", "p">>,
    <<"t", "i", "m", "e">>, <<"u">>, <<"v", "a", "r">>, <<"w", "b", "r">> }

BLOCK_ELEMENTS == {
    <<"a", "r", "t", "i", "c", "l", "e">>, <<"a", "s", "i", "d", "e">>,
    <<"d", "i", "v">>, <<"f", "o", "o", "t", "e", "r">>,
    <<"h", "e", "a", "d", "e", "r">>, <<"m", "a", "i", "n">>, <<"n", "a", "v">>,
    <<"s", "e", "c", "t", "i", "o", "n">>, <<"t", "a", "b", "l", "e">>,
    <<"t", "h", "e", "a", "d">>, <<"t", "b", "o", "d", "y">>,
    <<"t", "f", "o", "o", "t">>, <<"t", "r">>, <<"t", "d">>, <<"u", "l">>,
    <<"o", "l">>, <<"l", "i">>, <<"f", "o", "r", "m">>,
    <<"d", "e", "t", "a", "i", "l", "s">>, <<"s", "u", "m", "m", "a", "r", "y">>,
    <<"b", "u", "t", "t", "o", "n">> }

(***************************************************************************)
(* The string literals the code compares names with.                       *)
(***************************************************************************)
DIV == <<"d", "i", "v">>
SPAN == <<"s", "p", "a", "n">>
LABEL == <<"l", "a", "b", "e", "l">>
PARA == <<"p">>
HTMLFOR == <<"h", "t", "m", "l", "F", "o", "r">>
FOR == <<"f", "o", "r">>

(***************************************************************************)
(* Type information: services.hasFullTypeInformation,                      *)
(* services.esTreeNodeToTSNodeMap and services.program are present or not. *)
(* The answer of the type checker for an expression is the expression's    *)
(* field oracle: result "throws" (the node lookup or the query throws),    *)
(* "undefined" (no type) or "type", with the type's flags as a set of      *)
(* ts.TypeFlags names; a mask is the set of its bits, and x & mask the     *)
(* intersection.                                                           *)
(***************************************************************************)
StringLike == {"String", "StringLiteral", "TemplateLiteral", "StringMapping"}
StringLiteral == {"StringLiteral"}
TemplateLiteral == {"TemplateLiteral"}

hasTypeInfo(svc) ==
    svc.hasFullTypeInformation /\ svc.esTreeNodeToTSNodeMap /\ svc.program

isProbablyTextType(type) ==
    \/ (type.flags \cap StringLike) # {}
    \/ (type.flags \cap StringLiteral) # {}
    \/ (type.flags \cap TemplateLiteral) # {}

(***************************************************************************)
(* children.filter(child => !(child.type === "JSXText" &&                  *)
(*                            child.value.trim() === ""))                  *)
(***************************************************************************)
isWhitespaceText(child) ==
    child.type = "JSXText" /\ trim(child.value) = <<>>

nonWhitespace(children) ==
    SelectSeq(children, LAMBDA child : ~isWhitespaceText(child))

(***************************************************************************)
(* The expression-slot branch of isInlineOrText once the expression is     *)
(* known to be present: fail open without type information or when the     *)
(* query throws, otherwise the type's flags decide.                        *)
(***************************************************************************)
classifyExpression_failClosed(svc, expr) ==
    IF ~hasTypeInfo(svc) THEN FALSE
    ELSE IF expr.oracle.result = "throws" THEN FALSE
    ELSE IF expr.oracle.result = "undefined" THEN FALSE
    ELSE isProbablyTextType(expr.oracle)

classifyExpression(svc, expr) ==
    IF ~hasTypeInfo(svc) THEN TRUE
    ELSE IF expr.oracle.result = "throws" THEN TRUE
    ELSE IF expr.oracle.result = "undefined" THEN FALSE
    ELSE isProbablyTextType(expr.oracle)

(***************************************************************************)
(* isInlineOrText(node).                                                   *)
(***************************************************************************)
RECURSIVE isInlineOrText(_, _)
isInlineOrText(svc, node) ==
    IF node = Null THEN FALSE
    ELSE IF node.type = "Literal" /\ node.valueType = "string" THEN TRUE
    ELSE IF node.type = "JSXText" THEN trim(node.value) # <<>>
    ELSE IF node.type = "JSXExpressionContainer" THEN
        LET expr == node.expression IN
        IF expr = Null THEN FALSE
        ELSE classifyExpression(svc, expr)
    ELSE IF node.type = "JSXElement" THEN
        LET tagNameNode == node.openingElement.name IN
        IF tagNameNode.type # "JSXIdentifier" THEN FALSE
        ELSE LET tag == tagNameNode.name IN
             IF tag[1] = toUpperCase(tag[1]) THEN FALSE
             ELSE IF tag \in BLOCK_ELEMENTS THEN FALSE
             ELSE IF tag \notin INLINE_ELEMENTS THEN FALSE
             ELSE LET children == nonWhitespace(node.children) IN
                  \A i \in 1..Len(children) : isInlineOrText(svc, children[i])
    ELSE FALSE

(***************************************************************************)
(* Navigation: the node at a path, and node.parent.                        *)
(***************************************************************************)
childAt(node, step) ==
    IF step[2] = 0 THEN node[step[1]] ELSE node[step[1]][step[2]]

RECURSIVE nodeAt(_, _)
nodeAt(node, path) ==
    IF path = <<>> THEN node ELSE nodeAt(childAt(node, Head(path)), Tail(path))

parent(path) ==
    IF path = <<>> THEN None ELSE SubSeq(path, 1, Len(path) - 1)

(***************************************************************************)
(* checkNode, the ancestor loop: whether some ancestor is a div or span    *)
(* all of whose non-whitespace children are inline or text.                *)
(***************************************************************************)
ancestorAllInline(d, svc, ancestor) ==
    LET ancestorChildren == nonWhitespace(nodeAt(d, ancestor).children) IN
    \A i \in 1..Len(ancestorChildren) : isInlineOrText(svc, ancestorChildren[i])

ancestorCovers(d, svc, ancestor) ==
    LET a == nodeAt(d, ancestor) IN
    /\ a.type = "JSXElement"
    /\ a.openingElement.name.type = "JSXIdentifier"
    /\ LET ancestorTag == a.openingElement.name.name IN
       /\ ancestorTag = DIV \/ ancestorTag = SPAN
       /\ ancestorAllInline(d, svc, ancestor)

coveredByParentOnly(d, svc, ancestor) ==
    ancestor # None /\ ancestorCovers(d, svc, ancestor)

RECURSIVE coveredByAncestor(_, _, _)
coveredByAncestor(d, svc, ancestor) ==
    IF ancestor = None THEN FALSE
    ELSE IF ancestorCovers(d, svc, ancestor) THEN TRUE
    ELSE coveredByAncestor(d, svc, parent(ancestor))

(***************************************************************************)
(* checkNode, the attribute tests.                                         *)
(***************************************************************************)
hasSpread(attributes) ==
    \E i \in 1..Len(attributes) : attributes[i].type = "JSXSpreadAttribute"

hasHtmlFor_htmlForOnly(attributes) ==
    \E i \in 1..Len(attributes) :
        /\ attributes[i].type = "JSXAttribute"
        /\ attributes[i].name.name = HTMLFOR

hasHtmlFor(attributes) ==
    \E i \in 1..Len(attributes) :
        /\ attributes[i].type = "JSXAttribute"
        /\ (attributes[i].name.name = HTMLFOR \/ attributes[i].name.name = FOR)

(***************************************************************************)
(* checkNode, the test on the immediate parent.                            *)
(***************************************************************************)
parentIsP(d, path) ==
    /\ parent(path) # None
    /\ LET par == nodeAt(d, parent(path)) IN
       /\ par.type = "JSXElement"
       /\ par.openingElement.name.type = "JSXIdentifier"
       /\ par.openingElement.name.name = PARA

(***************************************************************************)
(* The suggestion's fix(fixer): the list of replaceText calls.  A token is *)
(* named by its element and its place in it.                               *)
(***************************************************************************)
replaceText(path, token, text) ==
    [target |-> [element |-> path, token |-> token], text |-> text]

fix_openingOnly(d, path) ==
    LET node == nodeAt(d, path)
        openingName == node.openingElement.name
    IN  IF openingName.type = "JSXIdentifier"
        THEN <<replaceText(path, "openingElement.name", PARA)>>
        ELSE <<>>

fix(d, path) ==
    LET node == nodeAt(d, path)
        openingName == node.openingElement.name
        fixes1 == IF openingName.type = "JSXIdentifier"
                  THEN <<replaceText(path, "openingElement.name", PARA)>>
                  ELSE <<>>
    IN  IF node.closingElement # Null
           /\ node.closingElement.name.type = "JSXIdentifier"
        THEN Append(fixes1, replaceText(path, "closingElement.name", PARA))
        ELSE fixes1

report(d, path, tagName) ==
    [ node |-> [element |-> path, token |-> "openingElement.name"],
      messageId |-> "preferP",
      data |-> [tag |-> tagName],
      suggest |-> <<[desc |-> "Replace element with <p>", fix |-> fix(d, path)]>> ]

(***************************************************************************)
(* checkNode(node).  st is the rule's mutable state: reportedNodes and the *)
(* context.report calls made.                                              *)
(***************************************************************************)
evaluate(d, svc, st, path) ==
    LET node == nodeAt(d, path)
        tagNode == node.openingElement.name
    IN  IF tagNode.type # "JSXIdentifier" THEN st
        ELSE
        LET tagName == tagNode.name
            isLabel == tagName = LABEL
            isDivOrSpan == tagName = DIV \/ tagName = SPAN
            attributes == node.openingElement.attributes
            children == nonWhitespace(node.children)
            allInline == \A i \in 1..Len(children) : isInlineOrText(svc, children[i])
        IN  IF ~isDivOrSpan /\ ~isLabel THEN st
            ELSE IF hasSpread(attributes) THEN st
            ELSE IF isLabel /\ hasHtmlFor(attributes) THEN st
            ELSE IF Len(children) = 0 THEN st
            ELSE IF ~allInline THEN st
            ELSE IF (tagName = SPAN \/ tagName = DIV) /\ parentIsP(d, path) THEN st
            ELSE [st EXCEPT !.reports = Append(@, report(d, path, tagName))]

checkNode_noGuard(d, svc, st, path) ==
    IF coveredByAncestor(d, svc, parent(path)) THEN st
    ELSE evaluate(d, svc, [st EXCEPT !.reportedNodes = @ \cup {path}], path)

checkNode_coveredIfAncestorReported(d, svc, st, path) ==
    IF path \in st.reportedNodes THEN st
    ELSE IF \E i \in 0..(Len(path) - 1) :
                /\ SubSeq(path, 1, i) \in st.reportedNodes
                /\ ancestorCovers(d, svc, SubSeq(path, 1, i))
         THEN st
         ELSE evaluate(d, svc, [st EXCEPT !.reportedNodes = @ \cup {path}], path)

checkNode(d, svc, st, path) ==
    IF path \in st.reportedNodes THEN st
    ELSE IF coveredByAncestor(d, svc, parent(path)) THEN st
    ELSE evaluate(d, svc, [st EXCEPT !.reportedNodes = @ \cup {path}], path)

(***************************************************************************)
(* traverseNode(node): the nodes it calls checkNode on, in call order.     *)
(* checkNode reads nothing traverseNode writes, so the calls are the whole *)
(* effect.  traverseEach is array.forEach(traverseNode) from index i on.   *)
(***************************************************************************)
RECURSIVE traverseNode(_, _)
RECURSIVE traverseEach(_, _, _, _)
RECURSIVE traverseProperties(_, _, _)

traverseEach(d, path, field, i) ==
    IF i > Len(nodeAt(d, path)[field]) THEN <<>>
    ELSE traverseNode(d, Append(path, <<field, i>>))
            \o traverseEach(d, path, field, i + 1)

traverseProperties(d, path, i) ==
    IF i > Len(nodeAt(d, path).properties) THEN <<>>
    ELSE (IF nodeAt(d, path).properties[i].type = "Property"
          THEN traverseNode(d, path \o <<<<"properties", i>>, <<"value", 0>>>>)
          ELSE <<>>)
            \o traverseProperties(d, path, i + 1)

traverseNode(d, path) ==
    LET node == nodeAt(d, path)
        into(field) == traverseNode(d, Append(path, <<field, 0>>))
    IN  IF node = Null THEN <<>>
        ELSE IF node.type = "JSXElement"
            THEN <<path>> \o traverseEach(d, path, "children", 1)
        ELSE IF node.type = "JSXFragment"
            THEN traverseEach(d, path, "children", 1)
        ELSE IF node.type = "JSXExpressionContainer"
            THEN <<>>
        ELSE IF node.type = "ConditionalExpression"
            THEN into("consequent") \o into("alternate")
        ELSE IF node.type = "LogicalExpression"
            THEN into("left") \o into("right")
        ELSE IF node.type = "ArrayExpression"
            THEN traverseEach(d, path, "elements", 1)
        ELSE IF node.type = "CallExpression"
            THEN traverseEach(d, path, "arguments", 1) \o into("callee")
        ELSE IF node.type = "ReturnStatement"
            THEN into("argument")
        ELSE IF node.type = "ArrowFunctionExpression"
                \/ node.type = "FunctionExpression"
            THEN into("body")
        ELSE IF node.type = "BlockStatement"
            THEN traverseEach(d, path, "body", 1)
        ELSE IF node.type = "ExpressionStatement"
            THEN into("expression")
        ELSE IF node.type = "ParenthesizedExpression"
            THEN into("expression")
        ELSE IF node.type = "VariableDeclarator"
            THEN into("init")
        ELSE IF node.type = "ObjectExpression"
            THEN traverseProperties(d, path, 1)
        ELSE <<>>

(***************************************************************************)
(* The state of the rule after the checkNode calls of one traversal.       *)
(***************************************************************************)
RECURSIVE checkAll(_, _, _, _)
checkAll(d, svc, st, calls) ==
    IF calls = <<>> THEN st
    ELSE checkAll(d, svc, checkNode(d, svc, st, Head(calls)), Tail(calls))

\* JSXElement(node) { traverseNode(node) } and JSXFragment(node) alike.
visit(d, svc, st, path) == checkAll(d, svc, st, traverseNode(d, path))

(***************************************************************************)
(* The host: it walks the whole tree along every child field of a node     *)
(* (in source order) and invokes JSXElement on each element and            *)
(* JSXFragment on each fragment.                                           *)
(***************************************************************************)
fieldSteps(node, field) ==
    IF node[field] = Null THEN <<>> ELSE <<<<field, 0>>>>

arraySteps(node, field) ==
    [i \in 1..Len(node[field]) |-> <<field, i>>]

childSteps(node) ==
    IF node.type \in {"JSXElement", "JSXFragment"}
        THEN arraySteps(node, "children")
    ELSE IF node.type \in {"JSXExpressionContainer", "ExpressionStatement"}
        THEN fieldSteps(node, "expression")
    ELSE IF node.type = "ConditionalExpression"
        THEN fieldSteps(node, "test") \o fieldSteps(node, "consequent")
                \o fieldSteps(node, "alternate")
    ELSE IF node.type = "LogicalExpression"
        THEN fieldSteps(node, "left") \o fieldSteps(node, "right")
    ELSE IF node.type = "ArrayExpression"
        THEN arraySteps(node, "elements")
    ELSE IF node.type = "CallExpression"
        THEN fieldSteps(node, "callee") \o arraySteps(node, "arguments")
    ELSE IF node.type = "ArrowFunctionExpression"
        THEN fieldSteps(node, "body")
    ELSE IF node.type = "BlockStatement"
        THEN arraySteps(node, "body")
    ELSE IF node.type = "ReturnStatement"
        THEN fieldSteps(node, "argument")
    ELSE IF node.type = "ObjectExpression"
        THEN arraySteps(node, "properties")
    ELSE IF node.type = "Property"
        THEN fieldSteps(node, "value")
    ELSE <<>>

RECURSIVE preorder(_, _)
RECURSIVE preorderEach(_, _, _, _)

preorderEach(d, path, steps, i) ==
    IF i > Len(steps) THEN <<>>
    ELSE preorder(d, Append(path, steps[i])) \o preorderEach(d, path, steps, i + 1)

preorder(d, path) ==
    IF nodeAt(d, path) = Null THEN <<>>
    ELSE <<path>> \o preorderEach(d, path, childSteps(nodeAt(d, path)), 1)

Range(s) == {s[i] : i \in 1..Len(s)}

nodesOfType(d, type) ==
    {path \in Range(preorder(d, <<>>)) : nodeAt(d, path).type = type}

(***************************************************************************)
(* Documents.  The constructors build the nodes the parser builds: a       *)
(* closing element carries the opening element's name, and a self-closing  *)
(* element has neither a closing element nor children.                     *)
(***************************************************************************)
JSXIdentifier(name) == [type |-> "JSXIdentifier", name |-> name]

JSXMemberExpression(object, property) ==
    [type |-> "JSXMemberExpression",
     object |-> JSXIdentifier(object), property |-> JSXIdentifier(property)]

JSXAttribute(name) == [type |-> "JSXAttribute", name |-> JSXIdentifier(name)]

JSXSpreadAttribute == [type |-> "JSXSpreadAttribute"]

JSXElement(name, attributes, children) ==
    [type |-> "JSXElement",
     openingElement |-> [name |-> name, attributes |-> attributes, selfClosing |-> FALSE],
     closingElement |-> [name |-> name],
     children |-> children]

JSXSelfClosing(name, attributes) ==
    [type |-> "JSXElement",
     openingElement |-> [name |-> name, attributes |-> attributes, selfClosing |-> TRUE],
     closingElement |-> Null,
     children |-> <<>>]

JSXFragment(children) == [type |-> "JSXFragment", children |-> children]

JSXText(value) == [type |-> "JSXText", value |-> value]

JSXExpressionContainer(expression) ==
    [type |-> "JSXExpressionContainer", expression |-> expression]

Throws == [result |-> "throws"]
Undefined == [result |-> "undefined"]
Type(flags) == [result |-> "type", flags |-> flags]

Identifier(oracle) == [type |-> "Identifier", oracle |-> oracle]

ConditionalExpression(consequent, alternate, oracle) ==
    [type |-> "ConditionalExpression", test |-> Identifier(Type({"Boolean"})),
     consequent |-> consequent, alternate |-> alternate, oracle |-> oracle]

LogicalExpression(left, right, oracle) ==
    [type |-> "LogicalExpression", left |-> left, right |-> right, oracle |-> oracle]

ArrayExpression(elements, oracle) ==
    [type |-> "ArrayExpression", elements |-> elements, oracle |-> oracle]

ArrowFunctionExpression(body) ==
    [type |-> "ArrowFunctionExpression", body |-> body, oracle |-> Type({"Object"})]

CallExpression(callee, arguments, oracle) ==
    [type |-> "CallExpression", callee |-> callee, arguments |-> arguments,
     oracle |-> oracle]

BlockStatement(body) == [type |-> "BlockStatement", body |-> body]

ReturnStatement(argument) == [type |-> "ReturnStatement", argument |-> argument]

ObjectExpression(properties, oracle) ==
    [type |-> "ObjectExpression", properties |-> properties, oracle |-> oracle]

Property(value) == [type |-> "Property", value |-> value]

\* Tag and attribute names of the documents, besides the ones the code names.
BOLD == <<"b">>
BR == <<"b", "r">>
UL == <<"u", "l">>
FOO == <<"F", "o", "o">>
BAR == <<"B", "a", "r">>
CLASSNAME == <<"c", "l", "a", "s", "s", "N", "a", "m", "e">>

TextA == JSXText(<<"A">>)
TextB == JSXText(<<" ", "B", " ">>)
TextBlank == JSXText(<<"\n", " ">>)
StringSlot == JSXExpressionContainer(Identifier(Type({"String"})))
NumberSlot == JSXExpressionContainer(Identifier(Type({"Number"})))

\* What wraps children: an element's name and attributes, or a fragment.
Template(name, attributes) == [kind |-> "element", name |-> name, attributes |-> attributes]
FragmentTemplate == [kind |-> "fragment"]

make(t, children) ==
    IF t.kind = "fragment" THEN JSXFragment(children)
    ELSE JSXElement(t.name, t.attributes, children)

\* The wrappers that occur at every depth of a chain.
Wrappers ==
    { Template(JSXIdentifier(DIV), <<>>),
      Template(JSXIdentifier(SPAN), <<>>),
      Template(JSXIdentifier(LABEL), <<>>),
      Template(JSXIdentifier(PARA), <<>>),
      Template(JSXIdentifier(BOLD), <<>>),
      Template(JSXIdentifier(DIV), <<JSXAttribute(CLASSNAME), JSXSpreadAttribute>>),
      FragmentTemplate }

Templates ==
    Wrappers \cup
    { Template(JSXIdentifier(UL), <<>>),
      Template(JSXIdentifier(FOO), <<>>),
      Template(JSXMemberExpression(FOO, BAR), <<>>),
      Template(JSXIdentifier(LABEL), <<JSXAttribute(HTMLFOR)>>),
      Template(JSXIdentifier(LABEL), <<JSXAttribute(CLASSNAME), JSXAttribute(FOR)>>) }

\* Chains e1 > ... > ek of exactly k wrappers, the innermost around no
\* child or a text (blank texts are among the siblings and the examples).
RECURSIVE Chains(_)
Chains(k) ==
    IF k = 1
    THEN {make(t, cs) : t \in Templates, cs \in {<<>>, <<TextA>>}}
    ELSE {make(t, <<c>>) : t \in Wrappers, c \in Chains(k - 1)}

\* A wrapper around 2..MaxChildren children, each a leaf or a small element.
Siblings ==
    { TextA, TextBlank, StringSlot, NumberSlot,
      JSXElement(JSXIdentifier(SPAN), <<>>, <<TextB>>),
      JSXElement(JSXIdentifier(FOO), <<>>, <<TextA>>),
      JSXSelfClosing(JSXIdentifier(BR), <<>>) }

RECURSIVE Tuples(_, _)
Tuples(S, n) ==
    IF n = 0 THEN {<<>>} ELSE {Append(t, x) : t \in Tuples(S, n - 1), x \in S}

Fans == {make(t, cs) : t \in Templates, cs \in UNION {Tuples(Siblings, n) : n \in 2..MaxChildren}}

ChainDocs == UNION {Chains(k) : k \in 1..MaxDepth}

\* Expression slots with every answer of the type checker.
OracleAnswers ==
    { Throws, Undefined, Type({"String"}), Type({"StringLiteral"}),
      Type({"TemplateLiteral"}), Type({"StringMapping"}), Type({"Number"}),
      Type({"Union"}), Type({"Any"}) }

Slots == {JSXExpressionContainer(Identifier(o)) : o \in OracleAnswers}
            \cup {JSXExpressionContainer(Null)}

SlotHolders == {JSXIdentifier(DIV), JSXIdentifier(SPAN), JSXIdentifier(LABEL)}

OracleDocs ==
    {JSXElement(n, <<>>, <<s>>) : n \in SlotHolders, s \in Slots}
        \cup {JSXElement(n, <<>>, <<s, TextA>>) : n \in SlotHolders, s \in Slots}
        \cup {JSXElement(n, <<>>, <<JSXElement(m, <<>>, <<s>>)>>) :
                n \in SlotHolders, m \in SlotHolders, s \in Slots}

\* Elements inside the expressions of a slot.
Inner ==
    { JSXElement(JSXIdentifier(SPAN), <<>>, <<TextA>>),
      JSXElement(JSXIdentifier(DIV), <<>>, <<TextA>>),
      JSXElement(JSXIdentifier(LABEL), <<>>, <<TextA>>) }

\* An element that is itself the expression of a slot has a type as well.
typed(element, oracle) ==
    [type |-> element.type, openingElement |-> element.openingElement,
     closingElement |-> element.closingElement, children |-> element.children,
     oracle |-> oracle]

Expressions ==
    {typed(x, Type({"Object"})) : x \in Inner}
    \cup {ConditionalExpression(x, y, Type({"Object"})) : x \in Inner, y \in Inner}
    \cup {ConditionalExpression(x, Null, Type({"Union"})) : x \in Inner}
    \cup {LogicalExpression(Identifier(Type({"Boolean"})), x, Type({"Union"})) : x \in Inner}
    \cup {ArrayExpression(<<x, Null, y>>, Type({"Object"})) : x \in Inner, y \in Inner}
    \cup {CallExpression(Identifier(Type({"Object"})), <<ArrowFunctionExpression(x)>>,
                         Type({"Object"})) : x \in Inner}
    \cup {CallExpression(ArrowFunctionExpression(BlockStatement(<<ReturnStatement(x)>>)),
                         <<>>, Type({"Object"})) : x \in Inner}
    \cup {ObjectExpression(<<Property(x)>>, Type({"Object"})) : x \in Inner}

ExpressionDocs ==
    {make(t, <<JSXExpressionContainer(e)>>) :
        t \in { Template(JSXIdentifier(DIV), <<>>), Template(JSXIdentifier(LABEL), <<>>),
                Template(JSXIdentifier(PARA), <<>>), FragmentTemplate },
        e \in Expressions}

\* The documents of the rule's documented examples.
HELLO == <<"H", "e", "l", "l", "o">>
NAME == <<"N", "a", "m", "e">>

SpanOf(value) == JSXElement(JSXIdentifier(SPAN), <<>>, <<JSXText(value)>>)

TwoSpans == JSXElement(JSXIdentifier(DIV), <<>>, <<SpanOf(<<"A">>), SpanOf(<<"B">>)>>)
BlankDiv == JSXElement(JSXIdentifier(DIV), <<>>, <<JSXText(<<" ", " ", " ">>)>>)
BlockChild ==
    JSXElement(JSXIdentifier(DIV), <<>>,
               <<JSXElement(JSXIdentifier(PARA), <<>>, <<JSXText(<<"x">>)>>)>>)
CustomChild ==
    JSXElement(JSXIdentifier(DIV), <<>>, <<JSXSelfClosing(JSXIdentifier(FOO), <<>>)>>)
AssociatedLabel == JSXElement(JSXIdentifier(LABEL), <<JSXAttribute(HTMLFOR)>>, <<JSXText(NAME)>>)
PlainLabel == JSXElement(JSXIdentifier(LABEL), <<>>, <<JSXText(NAME)>>)
TwoLabels == JSXFragment(<<AssociatedLabel, TextBlank, PlainLabel>>)
SpanInP == JSXElement(JSXIdentifier(PARA), <<>>, <<SpanOf(<<"t", "e", "x", "t">>)>>)
HelloDiv == JSXElement(JSXIdentifier(DIV), <<>>, <<JSXText(HELLO)>>)
SpreadDiv == JSXElement(JSXIdentifier(DIV), <<JSXSpreadAttribute>>, <<JSXText(HELLO)>>)

ExampleDocs ==
    { TwoSpans, BlankDiv, BlockChild, CustomChild, AssociatedLabel, PlainLabel,
      TwoLabels, SpanInP, HelloDiv, SpreadDiv }

NoServices ==
    [hasFullTypeInformation |-> FALSE, esTreeNodeToTSNodeMap |-> FALSE, program |-> FALSE]
FullServices ==
    [hasFullTypeInformation |-> TRUE, esTreeNodeToTSNodeMap |-> TRUE, program |-> TRUE]
AllServices ==
    [hasFullTypeInformation : BOOLEAN, esTreeNodeToTSNodeMap : BOOLEAN, program : BOOLEAN]

(***************************************************************************)
(* create(context): the state of a fresh rule object for one document.     *)
(***************************************************************************)
Init ==
    /\ \/ doc \in ChainDocs /\ services = NoServices
       \/ doc \in Fans /\ services \in {NoServices, FullServices}
       \/ doc \in ExpressionDocs /\ services \in {NoServices, FullServices}
       \/ doc \in ExampleDocs /\ services \in {NoServices, FullServices}
       \/ doc \in OracleDocs /\ services \in AllServices
    /\ invoked = {}
    /\ reportedNodes = {}
    /\ reports = <<>>
    /\ checked = {}

enter(path) ==
    LET st == visit(doc, services, [reportedNodes |-> reportedNodes, reports |-> reports], path)
    IN  /\ invoked' = invoked \cup {path}
        /\ reportedNodes' = st.reportedNodes
        /\ reports' = st.reports
        /\ checked' = checked \cup Range(traverseNode(doc, path))
        /\ UNCHANGED <<doc, services>>

\* The host invokes the rule's JSXElement(node), once per element of the document.
OnJSXElement ==
    \E path \in nodesOfType(doc, "JSXElement") \ invoked : enter(path)

\* The host invokes the rule's JSXFragment(node), once per fragment of the document.
OnJSXFragment ==
    \E path \in nodesOfType(doc, "JSXFragment") \ invoked : enter(path)

Next == OnJSXElement \/ OnJSXFragment

Spec == Init /\ [][Next]_vars

(***************************************************************************)
(* A pass in which the host invokes the entry points top-down, in source   *)
(* order, as a walk of the tree does.                                      *)
(***************************************************************************)
entryPoints(d) == nodesOfType(d, "JSXElement") \cup nodesOfType(d, "JSXFragment")

RECURSIVE visitAll(_, _, _, _)
visitAll(d, svc, st, order) ==
    IF order = <<>> THEN st
    ELSE visitAll(d, svc, visit(d, svc, st, Head(order)), Tail(order))

topDownPass(d, svc) ==
    visitAll(d, svc, [reportedNodes |-> {}, reports |-> <<>>],
             SelectSeq(preorder(d, <<>>), LAMBDA path : path \in entryPoints(d)))

(***************************************************************************)
(* The vocabulary of the properties.                                       *)
(***************************************************************************)
Elements == nodesOfType(doc, "JSXElement")

\* The pass is over: the host has invoked every entry point.
Done == invoked = entryPoints(doc)

findingsOf(e) == {i \in 1..Len(reports) : reports[i].node.element = e}

reported == {e \in Elements : findingsOf(e) # {}}

ancestorsOf(e) == {SubSeq(e, 1, i) : i \in 0..(Len(e) - 1)}

elementAncestorsOf(e) == {a \in ancestorsOf(e) : nodeAt(doc, a).type = "JSXElement"}

hasTag(e, tags) ==
    /\ nodeAt(doc, e).type = "JSXElement"
    /\ nodeAt(doc, e).openingElement.name.type = "JSXIdentifier"
    /\ nodeAt(doc, e).openingElement.name.name \in tags

attributeNames(e) ==
    LET attributes == nodeAt(doc, e).openingElement.attributes IN
    {attributes[i].name.name : i \in {j \in 1..Len(attributes) : attributes[j].type = "JSXAttribute"}}

hasSpreadAttribute(e) ==
    LET attributes == nodeAt(doc, e).openingElement.attributes IN
    \E i \in 1..Len(attributes) : attributes[i].type = "JSXSpreadAttribute"

contentOf(e) == nonWhitespace(nodeAt(doc, e).children)

allChildrenInline(e) ==
    \A i \in 1..Len(contentOf(e)) : isInlineOrText(services, contentOf(e)[i])

insideP(e) == e # <<>> /\ hasTag(parent(e), {PARA})

\* Some ancestor element is a div or span all of whose content is inline or text.
hasCoveringAncestor(e) ==
    \E a \in elementAncestorsOf(e) : hasTag(a, {DIV, SPAN}) /\ allChildrenInline(a)

\* C1: no element receives more than one finding, whatever the order of the
\* entry-point invocations and however many of them reach the element.
AtMostOneFinding == \A e \in Elements : Cardinality(findingsOf(e)) <= 1

\* A nested element with a finding that checkNode has been called on twice:
\* from its own entry point and from an enclosing one.
AtMostOneFindingWitness ==
    \E e \in reported :
        /\ e \in invoked
        /\ \E a \in ancestorsOf(e) : a \in invoked /\ e \in Range(traverseNode(doc, a))

\* C2: an element with an ancestor div or span all of whose non-whitespace
\* children are inline or text receives no finding; in
\* <div><span>A</span><span>B</span></div> the div alone is reported.
AncestorSuppression ==
    /\ \A e \in Elements : hasCoveringAncestor(e) => e \notin reported
    /\ (doc = TwoSpans /\ Done) => reported = {<<>>}

AncestorSuppressionWitness ==
    doc = TwoSpans /\ Done /\ reported = {<<>>} /\ Elements \subseteq checked

\* C3: no element with a finding has an ancestor element with a finding.
FindingsNeverOverlap ==
    \A e \in reported : elementAncestorsOf(e) \cap reported = {}

\* C4: an element whose immediate parent is a p element receives no finding,
\* whatever its own tag.
NoFindingDirectlyInsideP == \A e \in reported : ~insideP(e)

slotsOf(d) ==
    {s \in nodesOfType(d, "JSXExpressionContainer") : nodeAt(d, s).expression # Null}

typeInformationMissing ==
    \/ ~services.hasFullTypeInformation
    \/ ~services.esTreeNodeToTSNodeMap
    \/ ~services.program

\* C5: an expression slot with an expression is inline-or-text whenever type
\* information is missing or the type query throws; when the type checker
\* answers, exactly when the type is string-like, a string literal or a
\* template literal; so without type information a div holding one
\* expression slot and nothing that exempts it is reported.
FailOpenClassification ==
    /\ \A s \in slotsOf(doc) :
        LET slot == nodeAt(doc, s)
            answer == slot.expression.oracle
        IN  IF typeInformationMissing \/ answer.result = "throws"
            THEN isInlineOrText(services, slot)
            ELSE isInlineOrText(services, slot)
                    <=> /\ answer.result = "type"
                        /\ answer.flags \cap {"String", "StringLiteral", "TemplateLiteral",
                                              "StringMapping"} # {}
    /\ (Done /\ typeInformationMissing) =>
        \A e \in Elements :
            (/\ hasTag(e, {DIV})
             /\ nodeAt(doc, e).openingElement.attributes = <<>>
             /\ Len(nodeAt(doc, e).children) = 1
             /\ Append(e, <<"children", 1>>) \in slotsOf(doc)
             /\ ~hasCoveringAncestor(e)
             /\ ~insideP(e))
            => e \in reported

\* <div>{value}</div> linted to the end without a program: it is reported.
FailOpenClassificationWitness ==
    /\ Done
    /\ ~services.program
    /\ hasTag(<<>>, {DIV})
    /\ Len(doc.children) = 1
    /\ <<<<"children", 1>>>> \in slotsOf(doc)
    /\ doc.children[1].expression.oracle = Type({"Number"})
    /\ reported = {<<>>}

renamesToP(f) ==
    /\ Len(f.suggest) = 1
    /\ f.suggest[1].fix # <<>>
    /\ \A k \in 1..Len(f.suggest[1].fix) : f.suggest[1].fix[k].text = PARA

\* C6: a label with an htmlFor or for attribute receives no finding; a label
\* with neither, no spread attribute, some non-whitespace child, only inline
\* or text children and no covering ancestor has, at the end of the pass,
\* exactly one finding, whose suggestion renames it to p.
LabelExemption ==
    /\ \A e \in Elements :
        (hasTag(e, {LABEL}) /\ attributeNames(e) \cap {HTMLFOR, FOR} # {})
            => e \notin reported
    /\ Done =>
        \A e \in Elements :
            (/\ hasTag(e, {LABEL})
             /\ attributeNames(e) \cap {HTMLFOR, FOR} = {}
             /\ ~hasSpreadAttribute(e)
             /\ Len(contentOf(e)) > 0
             /\ allChildrenInline(e)
             /\ ~hasCoveringAncestor(e))
            => /\ Cardinality(findingsOf(e)) = 1
               /\ \A i \in findingsOf(e) : renamesToP(reports[i])

\* <label htmlFor="x">Name</label> and <label>Name</label> side by side,
\* linted to the end: the second alone is reported.
LabelExemptionWitness ==
    doc = TwoLabels /\ Done /\ reported = {<<<<"children", 3>>>>}

\* C7: every finding is on an element whose opening name is a simple
\* identifier, and its one suggestion makes exactly two replacements: the
\* opening name token and the closing name token of that element, each by p.
EditIsTwoRenames ==
    \A i \in 1..Len(reports) :
        LET e == reports[i].node.element IN
        /\ nodeAt(doc, e).openingElement.name.type = "JSXIdentifier"
        /\ Len(reports[i].suggest) = 1
        /\ reports[i].suggest[1].fix =
            << [target |-> [element |-> e, token |-> "openingElement.name"], text |-> <<"p">>],
               [target |-> [element |-> e, token |-> "closingElement.name"], text |-> <<"p">>] >>

\* <div>Hello</div> reported.
EditIsTwoRenamesWitness == doc = HelloDiv /\ Len(reports) = 1

passesOtherChecks(e) ==
    /\ hasTag(e, {DIV, SPAN, LABEL})
    /\ ~hasSpreadAttribute(e)
    /\ ~(hasTag(e, {LABEL}) /\ attributeNames(e) \cap {HTMLFOR, FOR} # {})
    /\ Len(contentOf(e)) > 0
    /\ allChildrenInline(e)
    /\ ~insideP(e)

\* C8: an element that passes every check but ancestor suppression has, at
\* the end of the pass, an ancestor with a finding.
SuppressionIsCovered ==
    Done =>
        \A e \in Elements :
            (passesOtherChecks(e) /\ hasCoveringAncestor(e))
                => elementAncestorsOf(e) \cap reported # {}

elementsBelow(root) ==
    {e \in Elements : Len(e) >= Len(root) /\ SubSeq(e, 1, Len(root)) = root}

\* C9: one call of traverseNode on a root calls checkNode on every element
\* below the root, those inside the expressions of expression slots included.
OneWalkChecksEveryElement ==
    \A root \in invoked : invoked = {root} => elementsBelow(root) \subseteq checked

reportedBy(st) == {st.reports[i].node.element : i \in 1..Len(st.reports)}

\* C10: whatever the order of the entry-point invocations, the pass ends
\* with the set of reported elements that the top-down pass ends with.
OrderIndependence == Done => reported = reportedBy(topDownPass(doc, services))

\* A pass that was not top-down (its findings came in another order) and in
\* which an element was left to its covering ancestor.
OrderIndependenceWitness ==
    /\ Done
    /\ reports # topDownPass(doc, services).reports
    /\ \E e \in Elements : hasCoveringAncestor(e)

====
